---------------------------- MODULE Spec2Model ----------------------------
(***************************************************************************)
(* Model of the banner export pipeline, exportBanner, as it is written in  *)
(* the two source files of the repository:                                 *)
(*                                                                         *)
(*   "js"  src/js/export.js        (exportWidth / exportHeight, source     *)
(*                                  crop, helper roundRect, downloadCanvas)*)
(*   "p0"  src/unnamed/part_000    (targetWidth / targetHeight, no crop,   *)
(*                                  ctx.roundRect, text clipped to card)   *)
(*                                                                         *)
(* One export call is a chain of steps; pc names the step that runs next.  *)
(* JavaScript numbers are IEEE 754 binary64 numbers: every +, -, * and /   *)
(* of the code is the exact result rounded to 53 bits, in the order the    *)
(* code applies them.  Strings are sequences of UTF-16 code units.         *)
(***************************************************************************)
EXTENDS Integers, Sequences, FiniteSets, TLC

VARIABLES
  file,        \* which source file runs: "js" or "p0"
  inp,         \* the arguments and the DOM values the call reads
  pc,          \* the next step of exportBanner
  target,      \* [w, h]: exportWidth/exportHeight, targetWidth/targetHeight
  scale,       \* const scale
  src,         \* [sx, sy, sw, sh]: source rectangle of the background blit
  card,        \* [x, y, w, h, r]: cardX, cardY, cardWidth, cardHeight, radius
  blur,        \* [radius, padding, w, h, used]: blurRadius, padding, blurCanvas
  rgb,         \* [r, g, b, parsed]: channels parsed from the text color
  ctx,         \* state of the main canvas 2D context
  stack,       \* ctx.save() stack
  log,         \* draw operations performed so far, in order
  alerts,      \* number of alert(...) notifications shown
  errors,      \* number of console.error(...) calls of the catch block
  downloads,   \* number of a.click() downloads triggered
  uncaught     \* number of exceptions thrown outside the try block

vars == <<file, inp, pc, target, scale, src, card, blur, rgb, ctx, stack,
          log, alerts, errors, downloads, uncaught>>

---------------------------------------------------------------------------
(* Bounds of the model *)

\* natural image, preview and fixed dimensions range over 1..MaxDim
MaxDim == 3
\* card positions and sizes range over a grid of MaxCell cells per axis
MaxCell == 2

---------------------------------------------------------------------------
(* JavaScript numbers: IEEE 754 binary64 *)

(***************************************************************************)
(* A natural number of any size is the sequence of its digits in base      *)
(* Base, lowest digit first, without leading zero digits; 0 is <<>>.       *)
(***************************************************************************)
Base == 32768
DigitBits == 15
\* the width of the significand of a binary64 number
Precision == 53

Abs(n) == IF n < 0 THEN -n ELSE n
Max(a, b) == IF a < b THEN b ELSE a
Min(a, b) == IF b < a THEN b ELSE a

Digit(a, i) == IF i >= 1 /\ i <= Len(a) THEN a[i] ELSE 0
Rest(a) == IF a = <<>> THEN a ELSE Tail(a)

\* a without its leading zero digits
NTrim(a) ==
  IF a = <<>> THEN a
  ELSE IF a[Len(a)] # 0 THEN a
  ELSE LET used == {i \in 1..Len(a) : a[i] # 0}
       IN  IF used = {} THEN <<>>
           ELSE SubSeq(a, 1, CHOOSE i \in used : \A j \in used : j <= i)

RECURSIVE NFromInt(_)
NFromInt(n) ==
  IF n = 0 THEN <<>> ELSE <<n % Base>> \o NFromInt(n \div Base)

RECURSIVE NToInt(_)
NToInt(a) == IF a = <<>> THEN 0 ELSE a[1] + Base * NToInt(Tail(a))

\* -1, 0 or 1 as a < b, a = b or a > b
NCmp(a, b) ==
  IF Len(a) # Len(b) THEN (IF Len(a) < Len(b) THEN -1 ELSE 1)
  ELSE LET differ == {i \in 1..Len(a) : a[i] # b[i]}
           top == CHOOSE i \in differ : \A j \in differ : j <= i
       IN  IF differ = {} THEN 0
           ELSE IF a[top] < b[top] THEN -1 ELSE 1

\* a + b + c for a carry c of 0 or 1
RECURSIVE NAddC(_, _, _)
NAddC(a, b, c) ==
  IF a = <<>> /\ b = <<>> THEN (IF c = 0 THEN <<>> ELSE <<c>>)
  ELSE LET x == Digit(a, 1) + Digit(b, 1) + c
       IN  <<x % Base>> \o NAddC(Rest(a), Rest(b), x \div Base)

NAdd(a, b) == NTrim(NAddC(a, b, 0))

\* a - b - c for a >= b + c and a borrow c of 0 or 1
RECURSIVE NSubB(_, _, _)
NSubB(a, b, c) ==
  IF a = <<>> THEN <<>>
  ELSE LET x == a[1] - Digit(b, 1) - c
       IN  <<(x + Base) % Base>>
             \o NSubB(Tail(a), Rest(b), IF x < 0 THEN 1 ELSE 0)

NSub(a, b) == NTrim(NSubB(a, b, 0))

\* a * k for 0 <= k <= Base: the low halves of the digit products, plus
\* their high halves one digit up
NMulSmall(a, k) ==
  NAdd([i \in 1..Len(a) |-> (a[i] * k) % Base],
       <<0>> \o [i \in 1..Len(a) |-> (a[i] * k) \div Base])

\* a * Base^n
NShiftDigits(a, n) == IF a = <<>> THEN a ELSE [i \in 1..n |-> 0] \o a

\* a * b, b split in halves
RECURSIVE NMul(_, _)
NMul(a, b) ==
  IF a = <<>> \/ b = <<>> THEN <<>>
  ELSE IF Len(b) = 1 THEN NMulSmall(a, b[1])
  ELSE LET h == Len(b) \div 2
       IN  NAdd(NMul(a, NTrim(SubSeq(b, 1, h))),
                NShiftDigits(NMul(a, SubSeq(b, h + 1, Len(b))), h))

\* a * 2^k: every digit gives its low bits and takes the high bits of the
\* digit below
NShl(a, k) ==
  IF a = <<>> THEN a
  ELSE LET p == 2 ^ (k % DigitBits)
       IN  [i \in 1..(k \div DigitBits) |-> 0]
             \o NTrim([i \in 1..(Len(a) + 1) |->
                         ((Digit(a, i) * p) % Base)
                           + ((Digit(a, i - 1) * p) \div Base)])

\* the integer part of a / 2^k: every digit gives its high bits and takes
\* the low bits of the digit above
NShr(a, k) ==
  IF a = <<>> THEN a
  ELSE LET d == k \div DigitBits
           p == 2 ^ (k % DigitBits)
       IN  NTrim([i \in 1..(Len(a) - d) |->
                    (a[i + d] \div p)
                      + (Digit(a, i + d + 1) % p) * (Base \div p)])

\* the number of bits of n, for n up to Base
BitLen(n) ==
  IF n = 0 THEN 0
  ELSE CHOOSE k \in 1..(DigitBits + 1) : 2 ^ (k - 1) <= n /\ n < 2 ^ k

NBitLen(a) ==
  IF a = <<>> THEN 0 ELSE DigitBits * (Len(a) - 1) + BitLen(a[Len(a)])

NIsOdd(a) == a # <<>> /\ a[1] % 2 = 1

\* the number of zero bits at the low end of n, 0 < n < Base
TrailingZeros(n) ==
  CHOOSE k \in 0..DigitBits : n % (2 ^ k) = 0 /\ (n \div (2 ^ k)) % 2 = 1

NTrailingZeros(a) ==
  LET i == CHOOSE i \in 1..Len(a) : a[i] # 0 /\ \A j \in 1..(i - 1) : a[j] = 0
  IN  DigitBits * (i - 1) + TrailingZeros(a[i])

\* One digit of a long division of r by b, for r < b * Base and a divisor b
\* whose highest digit is at least Base / 2: the digit q and r - q * b, for
\* a guess no less than q and p = guess * b
RECURSIVE NDivFit(_, _, _, _)
NDivFit(r, b, guess, p) ==
  IF NCmp(p, r) <= 0 THEN <<guess, NSub(r, p)>>
  ELSE NDivFit(r, b, guess - 1, NSub(p, b))

NDivGuess(r, b, guess) == NDivFit(r, b, guess, NMulSmall(b, guess))

\* The quotient of the two highest digits of r by the highest digit of b is
\* at most 2 too large.
NDivDigit(r, b) ==
  NDivGuess(r, b, Min(Base - 1,
                      (Digit(r, Len(b) + 1) * Base + Digit(r, Len(b)))
                        \div b[Len(b)]))

\* long division of the digits a[1..i] below a remainder r of the higher
\* digits, q being the digits of the quotient found so far: the quotient
\* and the remainder
RECURSIVE NDivAt(_, _, _, _, _)
RECURSIVE NDivStep(_, _, _, _, _)
NDivAt(a, b, i, q, r) ==
  IF i = 0 THEN <<q, r>>
  ELSE NDivStep(a, b, i, q, NDivDigit(NTrim(<<a[i]>> \o r), b))

\* qr is the next digit of the quotient and the remainder it leaves; a
\* quotient does not begin with the digit 0
NDivStep(a, b, i, q, qr) ==
  IF q = <<>> /\ qr[1] = 0 THEN NDivAt(a, b, i - 1, q, qr[2])
  ELSE NDivAt(a, b, i - 1, <<qr[1]>> \o q, qr[2])

\* the integer part of a / b and the remainder, for b > 0 whose highest
\* digit is at least Base / 2: the highest Len(b) - 1 digits of a are the
\* first remainder
NDivNormal(a, b) ==
  IF Len(a) < Len(b) THEN <<<<>>, a>>
  ELSE NDivAt(a, b, Len(a) - Len(b) + 1, <<>>,
              SubSeq(a, Len(a) - Len(b) + 2, Len(a)))

\* the remainder qr[2] of a division whose operands were shifted by sh bits
NDivUnshift(qr, sh) == <<qr[1], NShr(qr[2], sh)>>

NDivShifted(a, b, sh) == NDivUnshift(NDivNormal(NShl(a, sh), NShl(b, sh)), sh)

\* the integer part of a / b and the remainder, for b > 0: both are shifted
\* until the highest digit of b is at least Base / 2
NDivMod(a, b) ==
  IF a = <<>> THEN <<a, a>>
  ELSE NDivShifted(a, b, DigitBits - BitLen(b[Len(b)]))

(***************************************************************************)
(* A number is [neg, m, e] and stands for (-1)^neg * m * 2^e with m a      *)
(* natural number that is odd; 0 is [FALSE, <<>>, 0].  A JavaScript number *)
(* has m < 2^53.  Infinity, NaN, -0 and subnormal numbers are left out:    *)
(* the code is called with positive sizes far from the ends of the range.  *)
(***************************************************************************)
Zero == [neg |-> FALSE, m |-> <<>>, e |-> 0]

\* the number (-1)^neg * n * 2^e for any natural n
Dyadic(neg, n, e) ==
  IF n = <<>> THEN Zero
  ELSE LET z == NTrailingZeros(n)
       IN  [neg |-> neg, m |-> NShr(n, z), e |-> e + z]

\* an integer held in a number
Num(n) == Dyadic(n < 0, NFromInt(Abs(n)), 0)

Neg(a) == IF a.m = <<>> THEN a ELSE [a EXCEPT !.neg = ~a.neg]

\* -1, 0 or 1 as |a| < |b|, |a| = |b| or |a| > |b|
MagCmp(a, b) ==
  IF a.m = <<>> \/ b.m = <<>>
    THEN (IF a.m = b.m THEN 0 ELSE IF a.m = <<>> THEN -1 ELSE 1)
  ELSE LET ha == NBitLen(a.m) + a.e
           hb == NBitLen(b.m) + b.e
           e == Min(a.e, b.e)
       IN  IF ha < hb THEN -1
           ELSE IF ha > hb THEN 1
           ELSE NCmp(NShl(a.m, a.e - e), NShl(b.m, b.e - e))

Cmp(a, b) ==
  IF a.neg # b.neg THEN (IF a.neg THEN -1 ELSE 1)
  ELSE IF a.neg THEN -MagCmp(a, b)
  ELSE MagCmp(a, b)

Lt(a, b) == Cmp(a, b) < 0
Le(a, b) == Cmp(a, b) <= 0

\* the exact sum, product and difference of two numbers
ExactAdd(a, b) ==
  IF a.m = <<>> THEN b
  ELSE IF b.m = <<>> THEN a
  ELSE LET e == Min(a.e, b.e)
           x == NShl(a.m, a.e - e)
           y == NShl(b.m, b.e - e)
           c == NCmp(x, y)
       IN  IF a.neg = b.neg THEN Dyadic(a.neg, NAdd(x, y), e)
           ELSE IF c = 0 THEN Zero
           ELSE IF c > 0 THEN Dyadic(a.neg, NSub(x, y), e)
           ELSE Dyadic(b.neg, NSub(y, x), e)

ExactSub(a, b) == ExactAdd(a, Neg(b))
ExactMul(a, b) ==
  IF a.m = <<>> \/ b.m = <<>> THEN Zero
  ELSE Dyadic(a.neg # b.neg, NMul(a.m, b.m), a.e + b.e)

\* the JavaScript number nearest to (-1)^neg * n * 2^e, a tie going to the
\* even significand
RoundNearestEven(neg, n, e) ==
  IF NBitLen(n) <= Precision THEN Dyadic(neg, n, e)
  ELSE LET k == NBitLen(n) - Precision
           q2 == NShr(n, k - 1)
           q == NShr(q2, 1)
           sticky == NShl(q2, k - 1) # n
           up == NIsOdd(q2) /\ (sticky \/ NIsOdd(q))
       IN  Dyadic(neg, IF up THEN NAdd(q, <<1>>) ELSE q, e + k)

Fl(a) == RoundNearestEven(a.neg, a.m, a.e)

\* a + b, a - b, a * b and a / b of JavaScript: the exact result, rounded
Add(a, b) == Fl(ExactAdd(a, b))
Sub(a, b) == Fl(ExactSub(a, b))
Mul(a, b) == Fl(ExactMul(a, b))

\* the number nearest to (-1)^neg * (qr[1] + f) * 2^e, for a quotient qr[1]
\* of 55 bits or more and a rest f < 1 that is 0 just when the remainder
\* qr[2] is 0: one more bit tells whether anything is left over
DivRound(neg, qr, e) ==
  RoundNearestEven(neg,
                   NAdd(NShl(qr[1], 1), IF qr[2] = <<>> THEN <<>> ELSE <<1>>),
                   e - 1)

\* a / b with a shifted up by s bits
DivShifted(a, b, s) ==
  DivRound(a.neg # b.neg, NDivMod(NShl(a.m, s), b.m), a.e - b.e - s)

\* a / b for b # 0.  A power of two divides exactly; else the quotient to
\* 55 bits or more, rounded
Div(a, b) ==
  IF b.m # <<>> /\ a.m = <<>> THEN Zero
  ELSE IF b.m = <<1>>
    THEN [neg |-> a.neg # b.neg, m |-> a.m, e |-> a.e - b.e]
  ELSE DivShifted(a, b, Max(0, Precision + 2 + NBitLen(b.m) - NBitLen(a.m)))

\* a fraction n / d of the inputs
Dec(n, d) == Div(Num(n), Num(d))

\* the decimal literals of the source: each is the number nearest to it
Lit0_01 == Div(Num(1), Num(100))
Lit0_02 == Div(Num(2), Num(100))
Lit0_06 == Div(Num(6), Num(100))
Lit0_1 == Div(Num(1), Num(10))
Lit0_12 == Div(Num(12), Num(100))
Lit0_14 == Div(Num(14), Num(100))
Lit0_15 == Div(Num(15), Num(100))
Lit0_2 == Div(Num(2), Num(10))
Lit0_25 == Div(Num(25), Num(100))
Lit0_3 == Div(Num(3), Num(10))
Lit0_34 == Div(Num(34), Num(100))
Lit0_5 == Div(Num(1), Num(2))
Lit0_8 == Div(Num(8), Num(10))
Lit1_8 == Div(Num(18), Num(10))

\* Math.max and Math.min
MathMax(a, b) == IF Lt(a, b) THEN b ELSE a
MathMin(a, b) == IF Lt(b, a) THEN b ELSE a

\* Math.floor as an integer
Floor(a) ==
  LET whole == IF a.e >= 0 THEN NToInt(NShl(a.m, a.e))
               ELSE NToInt(NShr(a.m, -a.e))
  IN  IF ~a.neg THEN whole
      ELSE IF a.e >= 0 THEN -whole
      ELSE -(whole + 1)

IsInt(a) == a.e >= 0

\* Math.round: to the nearest integer, a half rounds up
MathRound(a) == Floor(ExactAdd(a, Dyadic(FALSE, <<1>>, -1)))
\* Math.ceil
MathCeil(a) == -Floor(Neg(a))

\* the conversion of a number to a canvas dimension (an unsigned long):
\* the fraction is dropped
ToLong(a) == IF a.neg THEN -Floor(Neg(a)) ELSE Floor(a)

---------------------------------------------------------------------------
(* Program constants *)

BackdropBlurPx == 12      \* const blurRadius = 12 * scale
HighlightBandPx == 12     \* fillRect(cardX, cardY, cardWidth, 12 * scale)
PaddingFactorJs == 3      \* Math.ceil(blurRadius * 3)
PaddingFactorP0 == 2      \* Math.ceil(blurRadius * 2)
ShadowRepeatP0 == 3       \* for (let i = 0; i < 3; i++)
FallbackChannel == 255    \* let r = 255, g = 255, b = 255

Files == {"js", "p0"}

---------------------------------------------------------------------------
(* Geometry Resolver *)

\* The export size.  fw, fh are fixWidth, fixHeight; 0 stands for every
\* falsy value (null, undefined, 0, NaN), which the conditions of the code
\* do not tell apart.  Here the derived axis is cut off, not rounded.
TargetSizeFloor(nw, nh, pw, ph, fw, fh) ==
  LET imgAspectRatio == Div(Num(nw), Num(nh))
      previewAspectRatio == Div(Num(pw), Num(ph))
  IN  IF fw # 0 /\ fh # 0 THEN [w |-> fw, h |-> fh]
      ELSE IF fw # 0 \/ fh # 0
        THEN IF Lt(imgAspectRatio, previewAspectRatio)
               THEN [w |-> nw, h |-> Floor(Div(Num(nw), previewAspectRatio))]
               ELSE [w |-> Floor(Mul(Num(nh), previewAspectRatio)), h |-> nh]
        ELSE [w |-> nw, h |-> nh]

\* exportWidth, exportHeight (targetWidth, targetHeight)
TargetSize(nw, nh, pw, ph, fw, fh) ==
  LET imgAspectRatio == Div(Num(nw), Num(nh))
      previewAspectRatio == Div(Num(pw), Num(ph))
  IN  IF fw # 0 /\ fh # 0 THEN [w |-> fw, h |-> fh]
      ELSE IF fw # 0 \/ fh # 0
        THEN IF Lt(imgAspectRatio, previewAspectRatio)
               THEN [w |-> nw,
                     h |-> MathRound(Div(Num(nw), previewAspectRatio))]
               ELSE [w |-> MathRound(Mul(Num(nh), previewAspectRatio)),
                     h |-> nh]
        ELSE [w |-> nw, h |-> nh]

FullSource(nw, nh) ==
  [sx |-> Num(0), sy |-> Num(0), sw |-> Num(nw), sh |-> Num(nh)]

\* the crop taken from the top left corner instead of the centre
SourceRectJsCorner(nw, nh, tw, th, fw, fh) ==
  IF (fw # 0 \/ fh # 0) /\ th # 0
    THEN LET targetAspect == Div(Num(tw), Num(th))
             sourceAspect == Div(Num(nw), Num(nh))
         IN  IF Lt(sourceAspect, targetAspect)
               THEN [FullSource(nw, nh) EXCEPT
                       !.sh = Div(Num(nw), targetAspect)]
             ELSE IF Lt(targetAspect, sourceAspect)
               THEN [FullSource(nw, nh) EXCEPT
                       !.sw = Mul(Num(nh), targetAspect)]
             ELSE FullSource(nw, nh)
    ELSE FullSource(nw, nh)

\* src/js/export.js: the source rectangle is cropped whenever a dimension is
\* fixed.  A target of height 0 makes targetAspect Infinity (sh = 0), or NaN
\* when the width is 0 as well (both comparisons fail, nothing is cropped).
SourceRectJs(nw, nh, tw, th, fw, fh) ==
  IF fw # 0 \/ fh # 0
    THEN IF th = 0
           THEN IF tw = 0 THEN FullSource(nw, nh)
                ELSE [FullSource(nw, nh) EXCEPT
                        !.sh = Num(0), !.sy = Div(Num(nh), Num(2))]
         ELSE LET targetAspect == Div(Num(tw), Num(th))
                  sourceAspect == Div(Num(nw), Num(nh))
              IN  IF Lt(sourceAspect, targetAspect)
                    THEN LET sh == Div(Num(nw), targetAspect)
                         IN [FullSource(nw, nh) EXCEPT
                               !.sh = sh,
                               !.sy = Div(Sub(Num(nh), sh), Num(2))]
                  ELSE IF Lt(targetAspect, sourceAspect)
                    THEN LET sw == Mul(Num(nh), targetAspect)
                         IN [FullSource(nw, nh) EXCEPT
                               !.sw = sw,
                               !.sx = Div(Sub(Num(nw), sw), Num(2))]
                  ELSE FullSource(nw, nh)
    ELSE FullSource(nw, nh)

\* src/unnamed/part_000: drawImage(img, 0, 0, targetWidth, targetHeight)
\* draws the whole image
SourceRectP0(nw, nh, tw, th, fw, fh) == FullSource(nw, nh)

SourceRect(f, nw, nh, tw, th, fw, fh) ==
  IF f = "js" THEN SourceRectJs(nw, nh, tw, th, fw, fh)
              ELSE SourceRectP0(nw, nh, tw, th, fw, fh)

---------------------------------------------------------------------------
(* Scale-Derived Style Mapper *)

\* const scale = exportWidth / previewRect.width
ScaleFactor(tw, pw) == Div(Num(tw), Num(pw))

\* a length of the preview in raster pixels: px * scale
Scaled(px, s) == Mul(px, s)

\* (cardRect.top - bannerRect.top) / previewRect.height * targetWidth: the
\* vertical axis scaled by the wrong target dimension
CardGeometryWrongAxis(cl, ct, cw, ch, pw, ph, tw, th) ==
  [x |-> Mul(Div(cl, Num(pw)), Num(tw)),
   y |-> Mul(Div(ct, Num(ph)), Num(tw)),
   w |-> Mul(Div(cw, Num(pw)), Num(tw)),
   h |-> Mul(Div(ch, Num(ph)), Num(tw))]

\* cardX, cardY, cardWidth, cardHeight.  cl, ct are cardRect.left -
\* bannerRect.left and cardRect.top - bannerRect.top; cw, ch the card's
\* on-screen width and height.
CardGeometry(cl, ct, cw, ch, pw, ph, tw, th) ==
  [x |-> Mul(Div(cl, Num(pw)), Num(tw)),
   y |-> Mul(Div(ct, Num(ph)), Num(th)),
   w |-> Mul(Div(cw, Num(pw)), Num(tw)),
   h |-> Mul(Div(ch, Num(ph)), Num(th))]

---------------------------------------------------------------------------
(* Colors *)

\* a CSS color: kind "rgba" with channels, or kind "css", a string handed
\* to the canvas as it is
Rgba(r, g, b, a) == [kind |-> "rgba", r |-> r, g |-> g, b |-> b, a |-> a,
                     css |-> <<>>]
Css(str) == [kind |-> "css", r |-> 0, g |-> 0, b |-> 0, a |-> Num(0), css |-> str]
Transparent == Rgba(0, 0, 0, Num(0))
Black == Rgba(0, 0, 0, Num(1))

\* A string is the sequence of its UTF-16 code units.  The characters the
\* inputs are written with: the digits from U+0030, the small letters from
\* U+0061 and some punctuation.
Digits == <<"0", "1", "2", "3", "4", "5", "6", "7", "8", "9">>
Letters ==
  <<"a", "b", "c", "d", "e", "f", "g", "h", "i", "j", "k", "l", "m",
    "n", "o", "p", "q", "r", "s", "t", "u", "v", "w", "x", "y", "z">>

\* the code unit of a character
Code(ch) ==
  IF \E i \in 1..Len(Digits) : Digits[i] = ch
    THEN 47 + CHOOSE i \in 1..Len(Digits) : Digits[i] = ch
  ELSE IF \E i \in 1..Len(Letters) : Letters[i] = ch
    THEN 96 + CHOOSE i \in 1..Len(Letters) : Letters[i] = ch
  ELSE CASE ch = " " -> 32
         [] ch = "#" -> 35
         [] ch = "%" -> 37
         [] ch = "(" -> 40
         [] ch = ")" -> 41
         [] ch = "," -> 44
         [] ch = "." -> 46

\* the string made of the given characters
Str(chars) == [i \in 1..Len(chars) |-> Code(chars[i])]

\* \d: the digits 0 to 9
IsDigit(c) == c \in Code("0")..Code("9")
DigitValue(c) == c - Code("0")

\* \s: tab, line feed, vertical tab, form feed, carriage return, space,
\* no-break space, U+1680, U+2000 to U+200A, the line and paragraph
\* separators, U+202F, U+205F, U+3000 and the byte order mark U+FEFF
WhiteSpace ==
  {9, 10, 11, 12, 13, 32, 160, 5760} \cup (8192..8202)
    \cup {8232, 8233, 8239, 8287, 12288, 65279}
IsSpace(c) == c \in WhiteSpace

\* \d+ and \s* are greedy: the end of the run of digits (of spaces) from i
RECURSIVE SkipDigits(_, _)
SkipDigits(str, i) ==
  IF i <= Len(str) /\ IsDigit(str[i]) THEN SkipDigits(str, i + 1) ELSE i

RECURSIVE SkipSpaces(_, _)
SkipSpaces(str, i) ==
  IF i <= Len(str) /\ IsSpace(str[i]) THEN SkipSpaces(str, i + 1) ELSE i

\* parseInt of the digits str[i..j-1]
RECURSIVE ParseInt(_, _, _)
ParseInt(str, i, j) ==
  IF j <= i THEN 0 ELSE 10 * ParseInt(str, i, j - 1) + DigitValue(str[j - 1])

HasAt(str, i, lit) ==
  /\ i + Len(lit) - 1 <= Len(str)
  /\ \A k \in 1..Len(lit) : str[i + k - 1] = lit[k]

\* /rgba?\((\d+),\s*(\d+),\s*(\d+)/ tried at position i: <<matched, r, g, b>>
MatchRgbAt(str, i) ==
  LET none == <<FALSE, 0, 0, 0>>
      open == IF HasAt(str, i, Str(<<"r", "g", "b", "a", "(">>)) THEN i + 5
              ELSE IF HasAt(str, i, Str(<<"r", "g", "b", "(">>)) THEN i + 4
              ELSE 0
      r1 == open
      r2 == SkipDigits(str, r1)
      g1 == SkipSpaces(str, r2 + 1)
      g2 == SkipDigits(str, g1)
      b1 == SkipSpaces(str, g2 + 1)
      b2 == SkipDigits(str, b1)
  IN  IF open = 0 THEN none
      ELSE IF r2 = r1 \/ ~HasAt(str, r2, Str(<<",">>)) THEN none
      ELSE IF g2 = g1 \/ ~HasAt(str, g2, Str(<<",">>)) THEN none
      ELSE IF b2 = b1 THEN none
      ELSE <<TRUE, ParseInt(str, r1, r2), ParseInt(str, g1, g2),
             ParseInt(str, b1, b2)>>

\* textColor.match(...): the first position where the pattern matches
RECURSIVE MatchRgb(_, _)
MatchRgb(str, i) ==
  IF i > Len(str) THEN <<FALSE, 0, 0, 0>>
  ELSE IF MatchRgbAt(str, i)[1] THEN MatchRgbAt(str, i)
  ELSE MatchRgb(str, i + 1)

\* let r = 255, g = 255, b = 255; if (colorMatch) { r = parseInt(...) ... }
ParseTextColor(str) ==
  LET m == MatchRgb(str, 1)
  IN  IF m[1] THEN [r |-> m[2], g |-> m[3], b |-> m[4], parsed |-> TRUE]
      ELSE [r |-> FallbackChannel, g |-> FallbackChannel,
            b |-> FallbackChannel, parsed |-> FALSE]

---------------------------------------------------------------------------
(* The canvas 2D context *)

\* a fill or stroke style: a color, or a two-stop linear gradient along
\* line = <<x0, y0, x1, y1>>
ColorPaint(c) == [kind |-> "color", c0 |-> c, c1 |-> Transparent, line |-> <<>>]
LinearPaint(x0, y0, x1, y1, c0, c1) ==
  [kind |-> "linear", c0 |-> c0, c1 |-> c1, line |-> <<x0, y0, x1, y1>>]

\* the state of a context returned by canvas.getContext('2d')
DefaultCtx ==
  [clip |-> <<>>,               \* the paths clipped to, outermost first
   path |-> <<>>,               \* current path: <<x, y, w, h, radius>>
   shadowColor |-> Transparent,
   shadowBlur |-> Num(0),
   shadowOffsetX |-> Num(0),
   shadowOffsetY |-> Num(0),
   globalAlpha |-> Num(1),
   comp |-> "source-over",      \* globalCompositeOperation
   fillStyle |-> ColorPaint(Black),
   strokeStyle |-> ColorPaint(Black),
   lineWidth |-> Num(1),
   fontSize |-> Num(10),
   textAlign |-> "start",
   textBaseline |-> "alphabetic"]

\* ctx.restore() brings back everything but the current path
Restored(saved, cur) == [saved EXCEPT !.path = cur.path]

\* roundRect(ctx, x, y, w, h, r) / ctx.beginPath(); ctx.roundRect(...)
RoundRectPath(x, y, w, h, r) == <<x, y, w, h, r>>
CardPath == RoundRectPath(card.x, card.y, card.w, card.h, card.r)

\* one draw operation: on which canvas, which call, which effect it draws,
\* the destination geometry, the source rectangle (drawImage) and the
\* context state it was drawn under
Op(canvas, call, what, rect, from, st) ==
  [canvas |-> canvas, call |-> call, what |-> what, rect |-> rect,
   from |-> from, st |-> st]

---------------------------------------------------------------------------
(* The order of the steps of exportBanner in each file *)

\* the card's gradient filled before its shadows are drawn
OrderJsFillFirst ==
  <<"resolve", "load", "background", "measure", "sample", "stackblur",
    "saturate", "backdrop", "gradient", "shadows", "noise", "border",
    "highlight", "textsetup", "text1", "text2", "text3", "text4", "toblob",
    "encode", "done">>

\* src/js/export.js
OrderJs ==
  <<"resolve", "load", "background", "measure", "sample", "stackblur",
    "saturate", "backdrop", "shadows", "gradient", "noise", "border",
    "highlight", "textsetup", "text1", "text2", "text3", "text4", "toblob",
    "encode", "done">>

\* src/unnamed/part_000
OrderP0 ==
  <<"resolve", "load", "background", "measure", "sample", "stackblur",
    "saturate", "shadows", "cardcanvas", "composite", "border", "highlight",
    "noise", "textsetup", "text1", "text2", "text3", "text4", "toblob",
    "encode", "done">>

Order(f) == IF f = "js" THEN OrderJs ELSE OrderP0

\* the step after step p
After(f, p) ==
  LET o == Order(f)
      i == CHOOSE k \in 1..Len(o) : o[k] = p
  IN  o[i + 1]

At(f, p) == file = f /\ pc = p

\* the error is logged and the user is not told
CaughtSilent ==
  /\ errors' = errors + 1
  /\ alerts' = alerts
  /\ pc' = "done"

\* catch (error) { console.error(...); alert(...) }
Caught ==
  /\ errors' = errors + 1
  /\ alerts' = alerts + 1
  /\ pc' = "done"

---------------------------------------------------------------------------
(* Inputs of one call *)

Geo(nw, nh, pw, ph, fw, fh) ==
  [nw |-> nw, nh |-> nh, pw |-> pw, ph |-> ph, fw |-> fw, fh |-> fh]

\* every natural size, preview size and fixed size up to MaxDim
GeometryGrid ==
  {Geo(nw, nh, pw, ph, fw, fh) :
     nw \in 1..MaxDim, nh \in 1..MaxDim,
     pw \in 1..MaxDim, ph \in 1..MaxDim,
     fw \in 0..MaxDim, fh \in 0..MaxDim}

\* the two examples the specification works out
ExampleWide == Geo(1200, 800, 400, 200, 600, 0)
ExampleEndToEnd == Geo(800, 400, 400, 200, 800, 0)

\* sizes whose derived axis is exactly halfway between two integers
\* (742.5, 837.5, 7.5 and 112.5)
HalfwayGeometry ==
  {Geo(1920, 1080, 512, 198, 1920, 0),
   Geo(1920, 1080, 335, 432, 0, 1080),
   Geo(8, 55, 3, 22, 8, 0),
   Geo(3, 200, 2, 75, 3, 0)}

\* sizes whose exact lengths are whole numbers that the floating-point
\* operations miss: 12 * scale * 3 is 125 and 116, (7 / 25) * 25 is 7 and
\* (15 / 22) * 22 is 15 when computed exactly
InexactGeometry ==
  {Geo(1500, 500, 432, 144, 0, 0),
   Geo(29, 10, 9, 3, 0, 0),
   Geo(25, 10, 25, 10, 0, 0),
   Geo(22, 10, 22, 10, 0, 0)}

\* realistic sizes: both fixed, one fixed, none fixed, scales that are not
\* whole numbers, and a preview so wide that the target height rounds to 0
SampleGeometry ==
  {ExampleWide, ExampleEndToEnd,
   Geo(800, 400, 400, 200, 0, 0),
   Geo(800, 600, 400, 200, 0, 300),
   Geo(800, 600, 500, 300, 640, 360),
   Geo(640, 480, 500, 400, 300, 300),
   Geo(7, 5, 5, 3, 0, 0),
   Geo(1, 1, 3, 1, 1, 0)}
    \cup HalfwayGeometry \cup InexactGeometry

CardRect(cl, ct, cw, ch) == [cl |-> cl, ct |-> ct, cw |-> cw, ch |-> ch]

\* the card in the middle of the preview, half as wide and half as high
MiddleCard(g) ==
  CardRect(Dec(g.pw, 4), Dec(g.ph, 4), Dec(g.pw, 2), Dec(g.ph, 2))

\* every card whose edges lie on a grid of MaxCell by MaxCell cells
CardGrid(g) ==
  {CardRect(Dec(g.pw * i, MaxCell), Dec(g.ph * j, MaxCell),
            Dec(g.pw * m, MaxCell), Dec(g.ph * n, MaxCell)) :
     <<i, j, m, n>> \in
       {q \in (0..MaxCell - 1) \X (0..MaxCell - 1)
                \X (1..MaxCell) \X (1..MaxCell) :
          q[1] + q[3] <= MaxCell /\ q[2] + q[4] <= MaxCell}}

\* cards of 7 by 5 and of 15 by 5 preview pixels at (2, 2)
SmallCard == CardRect(Num(2), Num(2), Num(7), Num(5))
WideCard == CardRect(Num(2), Num(2), Num(15), Num(5))

\* the cards tried in a preview
Cards(g) ==
  CardGrid(g) \cup {MiddleCard(g)}
    \cup (IF g.pw >= 9 /\ g.ph >= 7 THEN {SmallCard} ELSE {})
    \cup (IF g.pw >= 17 /\ g.pw <= 25 /\ g.ph >= 7 THEN {WideCard} ELSE {})

\* the decimal digits of a natural number
RECURSIVE DigitsOf(_)
DigitsOf(n) ==
  IF n < 10 THEN <<Code("0") + n>>
  ELSE DigitsOf(n \div 10) \o <<Code("0") + (n % 10)>>

\* "rgb(r,g,b)" with the code units sep after each comma
FormatRgbSep(r, g, b, sep) ==
  Str(<<"r", "g", "b", "(">>) \o DigitsOf(r) \o Str(<<",">>) \o sep
    \o DigitsOf(g) \o Str(<<",">>) \o sep \o DigitsOf(b) \o Str(<<")">>)

\* how the browser serialises a computed color: "rgb(r, g, b)" or
\* "rgba(r, g, b, 0.5)"
FormatRgb(r, g, b) == FormatRgbSep(r, g, b, Str(<<" ">>))
FormatRgba(r, g, b) ==
  Str(<<"r", "g", "b", "a", "(">>) \o DigitsOf(r) \o Str(<<",", " ">>)
    \o DigitsOf(g) \o Str(<<",", " ">>) \o DigitsOf(b)
    \o Str(<<",", " ", "0", ".", "5", ")">>)

\* the same without the spaces: "rgb(r,g,b)"
FormatRgbTight(r, g, b) == FormatRgbSep(r, g, b, <<>>)

Channels == {0, 7, 40, 128, 255}

\* white space after the commas: each white space code unit alone, and some
\* runs (CR FF, space tab space, two no-break spaces, tab LF U+2003 U+FEFF)
Separators ==
  {<<c>> : c \in WhiteSpace}
    \cup {<<13, 12>>, <<32, 9, 32>>, <<160, 160>>, <<9, 10, 8195, 65279>>}

\* code units after the commas that \s does not accept: U+001C, U+0085 (next
\* line), U+180E, U+200B (zero width space), U+2060, and a zero width space
\* between two spaces
NonSeparators ==
  {<<28>>, <<133>>, <<6158>>, <<8203>>, <<8288>>, <<32, 8203, 32>>}

WellFormedColors ==
  {FormatRgb(r, g, b) : r \in Channels, g \in Channels, b \in Channels}
  \cup {FormatRgba(r, g, b) : r \in {0, 255}, g \in {7, 128}, b \in {40, 255}}
  \cup {FormatRgbTight(r, g, b) : r \in {7, 255}, g \in {0, 128}, b \in {40}}
  \cup {FormatRgbSep(1, 2, 3, sep) : sep \in Separators}

\* color strings the pattern does not match: empty, a keyword, hex, the
\* space-separated syntax, a fractional channel, a space after the
\* parenthesis, hsl(), color(), a missing channel, and channels separated
\* by code units that are not white space
MalformedColors ==
  {<<>>,
   Str(<<"r", "e", "d">>),
   Str(<<"#", "f", "f", "0", "0", "0", "0">>),
   Str(<<"r", "g", "b", "(", "1", " ", "2", " ", "3", ")">>),
   Str(<<"r", "g", "b", "(", "1", ".", "5", ",", " ", "2", ",", " ", "3",
         ")">>),
   Str(<<"r", "g", "b", "(", " ", "1", ",", " ", "2", ",", " ", "3", ")">>),
   Str(<<"h", "s", "l", "(", "1", ",", " ", "2", "%", ",", " ", "3", "%",
         ")">>),
   Str(<<"c", "o", "l", "o", "r", "(", "s", "r", "g", "b", " ", "1", " ",
         "0", " ", "0", ")">>),
   Str(<<"r", "g", "b", "(", "1", ",", " ", "2", ")">>),
   Str(<<"r", "g", "b", "a">>)}
  \cup {FormatRgbSep(1, 2, 3, sep) : sep \in NonSeparators}

White == FormatRgb(255, 255, 255)

Inputs(g, c, color, radius, fontSize, stackBlur, stops) ==
  [nw |-> g.nw, nh |-> g.nh, pw |-> g.pw, ph |-> g.ph,
   fw |-> g.fw, fh |-> g.fh,
   cl |-> c.cl, ct |-> c.ct, cw |-> c.cw, ch |-> c.ch,
   radius |-> radius,          \* parseFloat(cardStyles.borderRadius)
   fontSize |-> fontSize,      \* parseFloat(txtStyles.fontSize)
   ascentEm |-> Dec(7, 10), \* actualBoundingBoxAscent / font size
   textColor |-> color,        \* txtStyles.color
   shadowVar |-> <<>>,         \* --txt-shadow-color, unset
   bgStops |-> stops,          \* rgba(...) colors found in the background
   stackBlur |-> stackBlur]    \* typeof StackBlur !== 'undefined'

NoStops == <<>>
TwoStops == <<Rgba(255, 255, 255, Lit0_3), Rgba(200, 200, 255, Lit0_1)>>

\* the state after exportBanner is called with inputs i in file f
Start(f, i) ==
  /\ file = f
  /\ inp = i
  /\ pc = "resolve"
  /\ target = [w |-> 0, h |-> 0]
  /\ scale = Num(0)
  /\ src = FullSource(0, 0)
  /\ card = [x |-> Num(0), y |-> Num(0), w |-> Num(0), h |-> Num(0), r |-> Num(0)]
  /\ blur = [radius |-> Num(0), padding |-> 0, w |-> 0, h |-> 0, used |-> -1]
  /\ rgb = [r |-> 0, g |-> 0, b |-> 0, parsed |-> FALSE]
  /\ ctx = DefaultCtx
  /\ stack = <<>>
  /\ log = <<>>
  /\ alerts = 0
  /\ errors = 0
  /\ downloads = 0
  /\ uncaught = 0

\* a few whole calls: the pipeline, its order and its failures
Init ==
  \E f \in Files, g \in SampleGeometry, sb \in BOOLEAN,
     stops \in {NoStops, TwoStops} :
    Start(f, Inputs(g, MiddleCard(g), White, Num(16), Num(24), sb, stops))

\* the geometry resolver over the whole grid
InitGeometry ==
  \E f \in Files, g \in GeometryGrid \cup SampleGeometry :
    Start(f, Inputs(g, MiddleCard(g), White, Num(16), Num(24), TRUE, NoStops))

\* the style mapper over every card of the grid, radius and font size
InitCard ==
  \E f \in Files, g \in SampleGeometry :
    \E c \in Cards(g),
       radius \in {Num(0), Num(16)}, fontSize \in {Num(24), Dec(27, 2)} :
      Start(f, Inputs(g, c, White, radius, fontSize, TRUE, NoStops))

\* the text color over well-formed and malformed strings
InitColor ==
  \E f \in Files, color \in WellFormedColors \cup MalformedColors :
    Start(f, Inputs(ExampleEndToEnd, MiddleCard(ExampleEndToEnd), color,
                    Num(16), Num(24), TRUE, NoStops))

---------------------------------------------------------------------------
(* Steps shared by both files *)

counters == <<alerts, errors, downloads, uncaught>>
geometry == <<target, scale, src, card, blur>>
canvasState == <<ctx, stack, log>>

Draw(op) == log' = Append(log, op)

\* the target size, the scale factor and the main canvas
ResolveTarget ==
  /\ pc = "resolve"
  /\ target' = TargetSize(inp.nw, inp.nh, inp.pw, inp.ph, inp.fw, inp.fh)
  /\ scale' = ScaleFactor(target'.w, inp.pw)
  /\ pc' = After(file, pc)
  /\ UNCHANGED <<file, inp, src, card, blur, rgb, canvasState, counters>>

\* await new Promise(...): img.onload
LoadOk ==
  /\ pc = "load"
  /\ pc' = After(file, pc)
  /\ UNCHANGED <<file, inp, geometry, rgb, canvasState, counters>>

\* await new Promise(...): img.onerror rejects, the await throws
LoadFail ==
  /\ pc = "load"
  /\ Caught
  /\ UNCHANGED <<file, inp, geometry, rgb, canvasState, downloads, uncaught>>

\* ctx.drawImage(img, sx, sy, sw, sh, 0, 0, exportWidth, exportHeight)
DrawBackground ==
  /\ pc = "background"
  /\ src' = SourceRect(file, inp.nw, inp.nh, target.w, target.h,
                       inp.fw, inp.fh)
  /\ Draw(Op("main", "drawImage", "background",
             <<Num(0), Num(0), Num(target.w), Num(target.h)>>,
             <<src'.sx, src'.sy, src'.sw, src'.sh>>, ctx))
  /\ pc' = After(file, pc)
  /\ UNCHANGED <<file, inp, target, scale, card, blur, rgb, ctx, stack,
                 counters>>

\* cardX, cardY, cardWidth, cardHeight and the scaled border radius
MeasureCard ==
  /\ pc = "measure"
  /\ LET c == CardGeometry(inp.cl, inp.ct, inp.cw, inp.ch, inp.pw, inp.ph,
                           target.w, target.h)
     IN card' = [x |-> c.x, y |-> c.y, w |-> c.w, h |-> c.h,
                 r |-> Scaled(inp.radius, scale)]
  /\ pc' = After(file, pc)
  /\ UNCHANGED <<file, inp, target, scale, src, blur, rgb, canvasState,
                 counters>>

\* blurRadius, the padding and the size of blurCanvas
BlurBufferJs ==
  LET radius == Scaled(Num(BackdropBlurPx), scale)
      padding == MathCeil(Mul(radius, Num(PaddingFactorJs)))
  IN  [radius |-> radius, padding |-> padding,
       w |-> MathCeil(Add(card.w, Num(padding * 2))),
       h |-> MathCeil(Add(card.h, Num(padding * 2))),
       used |-> -1]

BlurBufferP0 ==
  LET radius == Scaled(Num(BackdropBlurPx), scale)
      padding == MathCeil(Mul(radius, Num(PaddingFactorP0)))
  IN  [radius |-> radius, padding |-> padding,
       w |-> ToLong(Add(card.w, Num(padding * 2))),
       h |-> ToLong(Add(card.h, Num(padding * 2))),
       used |-> -1]

\* the rectangle of the main canvas that blurCtx.drawImage copies
SampleRectJs(b) ==
  <<MathMax(Num(0), Sub(card.x, Num(b.padding))),
    MathMax(Num(0), Sub(card.y, Num(b.padding))),
    MathMin(Num(target.w), Add(card.w, Num(b.padding * 2))),
    MathMin(Num(target.h), Add(card.h, Num(b.padding * 2)))>>

SampleRectP0(b) ==
  <<MathMax(Num(0), Sub(card.x, Num(b.padding))),
    MathMax(Num(0), Sub(card.y, Num(b.padding))),
    MathMin(Add(Sub(Num(target.w), card.x), Num(b.padding)), Num(b.w)),
    MathMin(Add(Sub(Num(target.h), card.y), Num(b.padding)), Num(b.h))>>

\* blurCtx.drawImage(canvas, ...) throws InvalidStateError when the main
\* canvas has a width or a height of 0
SampleBackdrop ==
  /\ pc = "sample"
  /\ blur' = IF file = "js" THEN BlurBufferJs ELSE BlurBufferP0
  /\ IF target.w = 0 \/ target.h = 0
       THEN /\ Caught
            /\ UNCHANGED <<log, downloads, uncaught>>
       ELSE /\ Draw(Op("blur", "drawImage", "sample",
                       <<Num(0), Num(0), Num(blur'.w), Num(blur'.h)>>,
                       IF file = "js" THEN SampleRectJs(blur')
                                      ELSE SampleRectP0(blur'),
                       DefaultCtx))
            /\ pc' = After(file, pc)
            /\ UNCHANGED counters
  /\ UNCHANGED <<file, inp, target, scale, src, card, rgb, ctx, stack>>

\* StackBlur.canvasRGB(blurCanvas, 0, 0, w, h, Math.round(blurRadius)),
\* skipped when the library is not loaded
BlurRadiusUsed(radius) == MathRound(radius)

ApplyBlur ==
  /\ pc = "stackblur"
  /\ IF inp.stackBlur
       THEN /\ blur' = [blur EXCEPT !.used = BlurRadiusUsed(blur.radius)]
            /\ Draw(Op("blur", "canvasRGB", "blur",
                       <<Num(0), Num(0), Num(blur.w), Num(blur.h)>>,
                       <<Num(blur'.used)>>, DefaultCtx))
       ELSE UNCHANGED <<blur, log>>
  /\ pc' = After(file, pc)
  /\ UNCHANGED <<file, inp, target, scale, src, card, rgb, ctx, stack,
                 counters>>

\* the saturation loop over the pixels of blurCanvas, multiplier 1.8
Saturate ==
  /\ pc = "saturate"
  /\ Draw(Op("blur", "putImageData", "saturate",
             <<Num(0), Num(0), Num(blur.w), Num(blur.h)>>, <<Lit1_8>>,
             DefaultCtx))
  /\ pc' = After(file, pc)
  /\ UNCHANGED <<file, inp, geometry, rgb, ctx, stack, counters>>

---------------------------------------------------------------------------
(* Glass-Card Renderer: pieces used by both files *)

\* the layers with the widest shadow first
ShadowLayersWidestFirst ==
  <<[blur |-> 48, offsetY |-> 16, alpha |-> Lit0_3],
    [blur |-> 16, offsetY |-> 8, alpha |-> Lit0_2],
    [blur |-> 4, offsetY |-> 2, alpha |-> Lit0_1]>>

\* the three box-shadow layers: blur, offsetY (preview pixels) and alpha
ShadowLayers ==
  <<[blur |-> 4, offsetY |-> 2, alpha |-> Lit0_1],
    [blur |-> 16, offsetY |-> 8, alpha |-> Lit0_2],
    [blur |-> 48, offsetY |-> 16, alpha |-> Lit0_3]>>

\* the shadow offset taken in preview pixels, not scaled
ShadowCtxUnscaled(c, layer, fill) ==
  [c EXCEPT !.shadowColor = Rgba(10, 10, 10, layer.alpha),
            !.shadowBlur = Scaled(Num(layer.blur), scale),
            !.shadowOffsetY = Num(layer.offsetY),
            !.path = CardPath,
            !.fillStyle = ColorPaint(fill)]

\* the context while one shadow layer is filled
ShadowCtx(c, layer, fill) ==
  [c EXCEPT !.shadowColor = Rgba(10, 10, 10, layer.alpha),
            !.shadowBlur = Scaled(Num(layer.blur), scale),
            !.shadowOffsetY = Scaled(Num(layer.offsetY), scale),
            !.path = CardPath,
            !.fillStyle = ColorPaint(fill)]

\* the top highlight: near-white at 12% fading out over 12 * scale
TopHighlight ==
  LinearPaint(card.x, card.y, card.x,
              Add(card.y, Scaled(Num(HighlightBandPx), scale)),
              Rgba(250, 250, 250, Lit0_12), Rgba(250, 250, 250, Num(0)))

HighlightBand ==
  <<card.x, card.y, card.w, Scaled(Num(HighlightBandPx), scale)>>

DefaultStops ==
  <<Rgba(255, 255, 255, Lit0_25), Rgba(255, 255, 255, Lit0_15)>>

\* ctx.save() and ctx.restore(); restore on an empty stack does nothing
Top(st) == st[Len(st)]
Pop(st) == SubSeq(st, 1, Len(st) - 1)
RestoreFrom(st, cur) == IF st = <<>> THEN cur ELSE Restored(Top(st), cur)
PopIf(st) == IF st = <<>> THEN st ELSE Pop(st)

---------------------------------------------------------------------------
(* Glass-Card Renderer of src/js/export.js *)

\* save, clip to the card, draw blurCanvas at (cardX - pad, cardY - pad),
\* restore
JsBackdrop ==
  /\ At("js", "backdrop")
  /\ LET c == [ctx EXCEPT !.path = CardPath,
                          !.clip = Append(ctx.clip, CardPath)]
     IN /\ Draw(Op("main", "drawImage", "backdrop",
                   <<Sub(card.x, Num(blur.padding)),
                     Sub(card.y, Num(blur.padding)), Num(blur.w), Num(blur.h)>>,
                   <<Num(0), Num(0), Num(blur.w), Num(blur.h)>>, c))
        /\ ctx' = Restored(ctx, c)
  /\ pc' = After(file, pc)
  /\ UNCHANGED <<file, inp, geometry, rgb, stack, counters>>

\* the three shadow fills, then the shadow is cleared and the state restored
JsShadows ==
  /\ At("js", "shadows")
  /\ log' = log \o
       [k \in 1..Len(ShadowLayers) |->
          Op("main", "fill", "shadow", CardPath, <<>>,
             ShadowCtx(ctx, ShadowLayers[k], Rgba(0, 0, 0, Lit0_01)))]
  /\ ctx' = [ctx EXCEPT !.path = CardPath]
  /\ pc' = After(file, pc)
  /\ UNCHANGED <<file, inp, geometry, rgb, stack, counters>>

\* save, clip to the card, fill it with the diagonal gradient
JsGradient ==
  /\ At("js", "gradient")
  /\ LET stops == IF Len(inp.bgStops) >= 2 THEN inp.bgStops
                  ELSE DefaultStops
         c == [ctx EXCEPT
                 !.path = CardPath,
                 !.clip = Append(ctx.clip, CardPath),
                 !.fillStyle =
                    LinearPaint(card.x, card.y, Add(card.x, card.w),
                                Add(card.y, card.h), stops[1], stops[2])]
     IN /\ stack' = Append(stack, ctx)
        /\ ctx' = c
        /\ Draw(Op("main", "fill", "gradient", CardPath, <<>>, c))
  /\ pc' = After(file, pc)
  /\ UNCHANGED <<file, inp, geometry, rgb, counters>>

\* createNoiseTexture, drawn at 15% with the overlay operation
JsNoise ==
  /\ At("js", "noise")
  /\ LET w == MathCeil(card.w)
         h == MathCeil(card.h)
         c == [ctx EXCEPT !.globalAlpha = Lit0_15, !.comp = "overlay"]
     IN log' = log \o
          <<Op("noise", "putImageData", "texture",
               <<Num(0), Num(0), Num(w), Num(h)>>, <<>>, DefaultCtx),
            Op("main", "drawImage", "noise",
               <<card.x, card.y, card.w, card.h>>,
               <<Num(0), Num(0), Num(w), Num(h)>>, c)>>
  /\ ctx' = [ctx EXCEPT !.globalAlpha = Num(1), !.comp = "source-over"]
  /\ pc' = After(file, pc)
  /\ UNCHANGED <<file, inp, geometry, rgb, stack, counters>>

\* the 1px stroke along the card's path
JsBorder ==
  /\ At("js", "border")
  /\ LET c == [ctx EXCEPT
                 !.strokeStyle = ColorPaint(Rgba(250, 250, 250, Lit0_06)),
                 !.lineWidth = Num(1),
                 !.path = CardPath]
     IN /\ ctx' = c
        /\ Draw(Op("main", "stroke", "border", CardPath, <<>>, c))
  /\ pc' = After(file, pc)
  /\ UNCHANGED <<file, inp, geometry, rgb, stack, counters>>

\* the top highlight band, then ctx.restore() ends the card's clip
JsHighlight ==
  /\ At("js", "highlight")
  /\ LET c == [ctx EXCEPT !.fillStyle = TopHighlight]
     IN /\ Draw(Op("main", "fillRect", "highlight", HighlightBand, <<>>, c))
        /\ ctx' = RestoreFrom(stack, c)
        /\ stack' = PopIf(stack)
  /\ pc' = After(file, pc)
  /\ UNCHANGED <<file, inp, geometry, rgb, counters>>

---------------------------------------------------------------------------
(* Glass-Card Renderer of src/unnamed/part_000 *)

\* the three layers are filled ShadowRepeatP0 times over, each fill between
\* its own save and restore
P0Shadows ==
  /\ At("p0", "shadows")
  /\ log' = log \o
       [k \in 1..(ShadowRepeatP0 * Len(ShadowLayers)) |->
          Op("main", "fill", "shadow", CardPath, <<>>,
             ShadowCtx(ctx, ShadowLayers[((k - 1) % Len(ShadowLayers)) + 1],
                       Rgba(255, 255, 255, Lit0_02)))]
  /\ ctx' = [ctx EXCEPT !.path = CardPath]
  /\ pc' = After(file, pc)
  /\ UNCHANGED <<file, inp, geometry, rgb, stack, counters>>

\* cardCanvas: the blurred backdrop cut out of blurCanvas at (padding,
\* padding), then the gradient over all of it
P0CardCanvas ==
  /\ At("p0", "cardcanvas")
  /\ log' = log \o
       <<Op("card", "drawImage", "backdrop",
            <<Num(0), Num(0), card.w, card.h>>,
            <<Num(blur.padding), Num(blur.padding), card.w, card.h>>,
            DefaultCtx),
         Op("card", "fillRect", "gradient",
            <<Num(0), Num(0), card.w, card.h>>, <<>>,
            [DefaultCtx EXCEPT
               !.fillStyle = LinearPaint(Num(0), Num(0), card.w, card.h,
                                         DefaultStops[1], DefaultStops[2])])>>
  /\ pc' = After(file, pc)
  /\ UNCHANGED <<file, inp, geometry, rgb, ctx, stack, counters>>

\* save, clip to the card, draw cardCanvas at (cardX, cardY).  cardCanvas is
\* ToLong(cardWidth) by ToLong(cardHeight); drawImage throws
\* InvalidStateError when either is 0.
P0Composite ==
  /\ At("p0", "composite")
  /\ LET c == [ctx EXCEPT !.path = CardPath,
                          !.clip = Append(ctx.clip, CardPath)]
         w == ToLong(card.w)
         h == ToLong(card.h)
     IN /\ stack' = Append(stack, ctx)
        /\ ctx' = c
        /\ IF w = 0 \/ h = 0
             THEN /\ Caught
                  /\ UNCHANGED <<log, downloads, uncaught>>
             ELSE /\ Draw(Op("main", "drawImage", "card",
                             <<card.x, card.y, Num(w), Num(h)>>,
                             <<Num(0), Num(0), Num(w), Num(h)>>, c))
                  /\ pc' = After(file, pc)
                  /\ UNCHANGED counters
  /\ UNCHANGED <<file, inp, geometry, rgb>>

\* the 1px stroke, inset by half a pixel
InsetPath ==
  RoundRectPath(Add(card.x, Lit0_5), Add(card.y, Lit0_5),
                Sub(card.w, Num(1)), Sub(card.h, Num(1)), card.r)

P0Border ==
  /\ At("p0", "border")
  /\ LET c == [ctx EXCEPT
                 !.strokeStyle = ColorPaint(Rgba(250, 250, 250, Lit0_06)),
                 !.lineWidth = Num(1),
                 !.path = InsetPath]
     IN /\ ctx' = c
        /\ Draw(Op("main", "stroke", "border", InsetPath, <<>>, c))
  /\ pc' = After(file, pc)
  /\ UNCHANGED <<file, inp, geometry, rgb, stack, counters>>

P0Highlight ==
  /\ At("p0", "highlight")
  /\ LET c == [ctx EXCEPT !.fillStyle = TopHighlight]
     IN /\ ctx' = c
        /\ Draw(Op("main", "fillRect", "highlight", HighlightBand, <<>>, c))
  /\ pc' = After(file, pc)
  /\ UNCHANGED <<file, inp, geometry, rgb, stack, counters>>

\* the noise canvas, drawn at 15% with the overlay operation; then
\* ctx.restore() ends the card's clip
P0Noise ==
  /\ At("p0", "noise")
  /\ LET w == ToLong(card.w)
         h == ToLong(card.h)
         c == [ctx EXCEPT !.globalAlpha = Lit0_15, !.comp = "overlay"]
     IN log' = log \o
          <<Op("noise", "putImageData", "texture",
               <<Num(0), Num(0), Num(w), Num(h)>>, <<>>, DefaultCtx),
            Op("main", "drawImage", "noise",
               <<card.x, card.y, Num(w), Num(h)>>,
               <<Num(0), Num(0), Num(w), Num(h)>>, c)>>
  /\ ctx' = RestoreFrom(stack, [ctx EXCEPT !.globalAlpha = Num(1),
                                           !.comp = "source-over"])
  /\ stack' = PopIf(stack)
  /\ pc' = After(file, pc)
  /\ UNCHANGED <<file, inp, geometry, rgb, counters>>

---------------------------------------------------------------------------
(* Text Renderer *)

\* parseFloat(fontSize) * scale
RasterFontSize == Scaled(inp.fontSize, scale)

\* textX, textY
TextAnchorJs ==
  <<Add(card.x, Div(card.w, Num(2))), Add(card.y, Div(card.h, Num(2)))>>

\* the alphabetic baseline, lowered by half of actualBoundingBoxAscent
TextAnchorP0 ==
  <<Add(card.x, Div(card.w, Num(2))),
    Add(Add(card.y, Div(card.h, Num(2))),
         Div(Mul(inp.ascentEm, RasterFontSize), Num(2)))>>

TextAnchor == IF file = "js" THEN TextAnchorJs ELSE TextAnchorP0

FillText(c) == Op("main", "fillText", "text", TextAnchor, <<>>, c)

\* src/js/export.js: the font and the alignment; the card's clip ended with
\* the restore of the highlight step
JsTextSetup ==
  /\ At("js", "textsetup")
  /\ ctx' = [ctx EXCEPT !.fontSize = RasterFontSize,
                        !.textAlign = "center",
                        !.textBaseline = "middle"]
  /\ pc' = After(file, pc)
  /\ UNCHANGED <<file, inp, geometry, rgb, stack, log, counters>>

\* txtStyles.getPropertyValue('--txt-shadow-color') || textColor
JsShadowColor ==
  IF inp.shadowVar # <<>> THEN Css(inp.shadowVar) ELSE Css(inp.textColor)

\* one pass of src/js/export.js: save, set, fillText, restore
JsPass(step, c) ==
  /\ At("js", step)
  /\ Draw(FillText(c))
  /\ pc' = After(file, pc)
  /\ UNCHANGED <<file, inp, geometry, rgb, ctx, stack, counters>>

JsText1 ==
  JsPass("text1",
         [ctx EXCEPT !.shadowColor = JsShadowColor,
                     !.shadowBlur = Scaled(Num(5), scale),
                     !.shadowOffsetX = Num(0),
                     !.shadowOffsetY = Scaled(Num(-2), scale),
                     !.globalAlpha = Lit0_25,
                     !.fillStyle = ColorPaint(Css(inp.textColor))])

JsText2 ==
  JsPass("text2",
         [ctx EXCEPT !.shadowColor = Rgba(0, 0, 0, Lit0_14),
                     !.shadowBlur = Scaled(Lit0_5, scale),
                     !.shadowOffsetX = Num(0),
                     !.shadowOffsetY = Scaled(Num(-1), scale),
                     !.globalAlpha = Lit0_2,
                     !.fillStyle = ColorPaint(Css(inp.textColor))])

JsText3 ==
  JsPass("text3",
         [ctx EXCEPT !.shadowColor = Rgba(255, 255, 255, Lit0_8),
                     !.shadowBlur = Scaled(Num(2), scale),
                     !.shadowOffsetX = Num(0),
                     !.shadowOffsetY = Scaled(Num(1), scale),
                     !.globalAlpha = Num(1),
                     !.fillStyle = ColorPaint(Css(inp.textColor))])

JsText4 ==
  JsPass("text4",
         [ctx EXCEPT !.fillStyle = ColorPaint(Css(inp.textColor)),
                     !.globalAlpha = Lit0_8,
                     !.comp = "multiply"])

\* src/unnamed/part_000: save, clip to the card, the font, the alignment and
\* the channels of the text color
P0TextClip(c) == Append(c.clip, CardPath)

P0TextSetup ==
  /\ At("p0", "textsetup")
  /\ stack' = Append(stack, ctx)
  /\ ctx' = [ctx EXCEPT !.path = CardPath,
                        !.clip = P0TextClip(ctx),
                        !.fontSize = RasterFontSize,
                        !.textAlign = "center",
                        !.textBaseline = "alphabetic"]
  /\ rgb' = ParseTextColor(inp.textColor)
  /\ pc' = After(file, pc)
  /\ UNCHANGED <<file, inp, geometry, log, counters>>

\* one pass of src/unnamed/part_000: the settings stay on the context
P0Pass(step, c) ==
  /\ At("p0", step)
  /\ Draw(FillText(c))
  /\ ctx' = c
  /\ pc' = After(file, pc)
  /\ UNCHANGED <<file, inp, geometry, rgb, stack, counters>>

\* shadow2 and shadow3 mix the text color with black and with white
Mix2(v) == MathRound(Div(Mul(Num(v), Lit0_2), Lit0_34))
Mix3(v) == MathRound(Add(Mul(Num(v), Lit0_2), Mul(Num(255), Lit0_8)))

P0Text1 ==
  P0Pass("text1",
         [ctx EXCEPT !.shadowColor = Rgba(rgb.r, rgb.g, rgb.b, Lit0_25),
                     !.shadowBlur = Scaled(Num(5), scale),
                     !.shadowOffsetX = Num(0),
                     !.shadowOffsetY = Scaled(Num(-2), scale),
                     !.fillStyle = ColorPaint(Css(inp.textColor))])

P0Text2 ==
  P0Pass("text2",
         [ctx EXCEPT !.shadowColor = Rgba(Mix2(rgb.r), Mix2(rgb.g),
                                          Mix2(rgb.b), Lit0_34),
                     !.shadowBlur = Scaled(Lit0_5, scale),
                     !.shadowOffsetY = Scaled(Num(-1), scale)])

P0Text3 ==
  P0Pass("text3",
         [ctx EXCEPT !.shadowColor = Rgba(Mix3(rgb.r), Mix3(rgb.g),
                                          Mix3(rgb.b), Num(1)),
                     !.shadowBlur = Scaled(Num(2), scale),
                     !.shadowOffsetY = Scaled(Num(1), scale)])

\* the main fill, then ctx.restore() ends the clip
P0Text4 ==
  /\ At("p0", "text4")
  /\ LET c == [ctx EXCEPT !.shadowColor = Transparent,
                          !.shadowBlur = Num(0),
                          !.shadowOffsetX = Num(0),
                          !.shadowOffsetY = Num(0),
                          !.globalAlpha = Lit0_8,
                          !.comp = "multiply",
                          !.fillStyle = ColorPaint(Css(inp.textColor))]
     IN /\ Draw(FillText(c))
        /\ ctx' = RestoreFrom(stack, c)
        /\ stack' = PopIf(stack)
  /\ pc' = After(file, pc)
  /\ UNCHANGED <<file, inp, geometry, rgb, counters>>

---------------------------------------------------------------------------
(* Emitter *)

\* canvas.toBlob(callback, 'image/png') returns at once; the try block of
\* exportBanner ends here and the callback runs later
ToBlob ==
  /\ pc = "toblob"
  /\ pc' = After(file, pc)
  /\ UNCHANGED <<file, inp, geometry, rgb, canvasState, counters>>

\* the callback gets a blob: the anchor is clicked
EncodeOk ==
  /\ pc = "encode"
  /\ downloads' = downloads + 1
  /\ pc' = After(file, pc)
  /\ UNCHANGED <<file, inp, geometry, rgb, canvasState, alerts, errors,
                 uncaught>>

\* the callback gets null: URL.createObjectURL(null) throws a TypeError in
\* the callback, after exportBanner and its try block have returned
EncodeNull ==
  /\ pc = "encode"
  /\ uncaught' = uncaught + 1
  /\ pc' = After(file, pc)
  /\ UNCHANGED <<file, inp, geometry, rgb, canvasState, alerts, errors,
                 downloads>>

---------------------------------------------------------------------------

Next ==
  \/ ResolveTarget
  \/ LoadOk
  \/ LoadFail
  \/ DrawBackground
  \/ MeasureCard
  \/ SampleBackdrop
  \/ ApplyBlur
  \/ Saturate
  \/ JsBackdrop
  \/ JsShadows
  \/ JsGradient
  \/ JsNoise
  \/ JsBorder
  \/ JsHighlight
  \/ JsTextSetup
  \/ JsText1
  \/ JsText2
  \/ JsText3
  \/ JsText4
  \/ P0Shadows
  \/ P0CardCanvas
  \/ P0Composite
  \/ P0Border
  \/ P0Highlight
  \/ P0Noise
  \/ P0TextSetup
  \/ P0Text1
  \/ P0Text2
  \/ P0Text3
  \/ P0Text4
  \/ ToBlob
  \/ EncodeOk
  \/ EncodeNull

Spec == Init /\ [][Next]_vars
SpecGeometry == InitGeometry /\ [][Next]_vars
SpecCard == InitCard /\ [][Next]_vars
SpecColor == InitColor /\ [][Next]_vars

---------------------------------------------------------------------------
(* Properties of the Geometry Resolver *)

Resolved == pc # "resolve"
BothFixed == inp.fw # 0 /\ inp.fh # 0
OneFixed == (inp.fw # 0 \/ inp.fh # 0) /\ ~BothFixed
PreviewWider == inp.pw * inp.nh > inp.nw * inp.ph
BackgroundDrawn == Len(log) >= 1 /\ log[1].what = "background"
Succeeded == pc = "done" /\ downloads = 1

\* n is an integer nearest to num / den (den > 0): at most one half away
WithinHalf(n, num, den) ==
  2 * n * den - den <= 2 * num /\ 2 * num <= 2 * n * den + den

\* C1 as amended: once resolved, the target is (fixWidth, fixHeight) when
\* both are fixed; (naturalWidth, naturalHeight) when none is; and when
\* exactly one is fixed it is (naturalWidth, round(naturalWidth /
\* previewAspect)) if previewAspect > imageAspect, else (round(naturalHeight
\* * previewAspect), naturalHeight), whatever the fixed value is, where the
\* rounded value is an integer nearest to the exact quotient (a quotient
\* halfway between two integers goes to either).  The worked example:
\* natural 1200x800, preview 2:1, fixWidth 600 gives (1200, 600); natural
\* 1920x1080, preview 512x198, fixWidth 1920 gives (1920, 742).
C1_TargetRounded ==
  Resolved =>
    /\ BothFixed => target = [w |-> inp.fw, h |-> inp.fh]
    /\ (inp.fw = 0 /\ inp.fh = 0) => target = [w |-> inp.nw, h |-> inp.nh]
    /\ (OneFixed /\ PreviewWider) =>
         /\ target.w = inp.nw
         /\ WithinHalf(target.h, inp.nw * inp.ph, inp.pw)
    /\ (OneFixed /\ ~PreviewWider) =>
         /\ target.h = inp.nh
         /\ WithinHalf(target.w, inp.nh * inp.pw, inp.ph)
    /\ (inp.nw = 1200 /\ inp.nh = 800 /\ inp.pw = 2 * inp.ph
        /\ inp.fw = 600 /\ inp.fh = 0) =>
         target = [w |-> 1200, h |-> 600]
    /\ (inp.nw = 1920 /\ inp.nh = 1080 /\ inp.pw = 512 /\ inp.ph = 198
        /\ inp.fw = 1920 /\ inp.fh = 0) =>
         target = [w |-> 1920, h |-> 742]

\* C1 as stated: with exactly one dimension fixed the derived axis is the
\* exact quotient naturalWidth / previewAspect (naturalHeight x
\* previewAspect)
C1_TargetExact ==
  (Resolved /\ OneFixed) =>
    IF PreviewWider
      THEN target.w = inp.nw /\ target.h * inp.pw = inp.nw * inp.ph
      ELSE target.h = inp.nh /\ target.w * inp.ph = inp.nh * inp.pw

\* a finished export with one fixed dimension whose derived height is not
\* the exact quotient
C1_Witness ==
  /\ Succeeded
  /\ OneFixed /\ PreviewWider
  /\ target.w = inp.nw
  /\ target.h * inp.pw # inp.nw * inp.ph

\* a and b are equal but for the rounding of a few floating-point
\* operations: |a - b| is at most 2^-48 of the larger of |a| and |b|
Close(a, b) ==
  LET d == ExactSub(a, b)
      up == [d EXCEPT !.e = d.e + 48]
  IN  d.m = <<>> \/ MagCmp(up, a) <= 0 \/ MagCmp(up, b) <= 0

\* the source rectangle is centred in the image, inside it, keeps one axis
\* whole and has the aspect ratio tw : th
CentredCrop(tw, th) ==
  /\ Close(ExactMul(src.sw, Num(th)), ExactMul(src.sh, Num(tw)))
  /\ Close(ExactAdd(ExactMul(src.sx, Num(2)), src.sw), Num(inp.nw))
  /\ Close(ExactAdd(ExactMul(src.sy, Num(2)), src.sh), Num(inp.nh))
  /\ src.sw = Num(inp.nw) \/ src.sh = Num(inp.nh)
  /\ Le(Num(0), src.sx) /\ Le(Num(0), src.sy)
  /\ Le(ExactAdd(src.sx, src.sw), Num(inp.nw))
  /\ Le(ExactAdd(src.sy, src.sh), Num(inp.nh))

\* C2 as amended: with exactly one dimension fixed, part_000 draws the whole
\* source image; js/export.js draws the whole image only when the target has
\* the image's aspect ratio, and otherwise a centred crop of the source with
\* the target's aspect ratio that keeps one axis whole.
C2_OneFixedSource ==
  (BackgroundDrawn /\ OneFixed) =>
    /\ log[1].from = <<src.sx, src.sy, src.sw, src.sh>>
    /\ file = "p0" => src = FullSource(inp.nw, inp.nh)
    /\ file = "js" =>
         /\ CentredCrop(target.w, target.h)
         /\ (src = FullSource(inp.nw, inp.nh)
               <=> target.w * inp.nh = inp.nw * target.h)

\* C2 as stated: with exactly one dimension fixed the background is drawn
\* from the full source image
C2_OneFixedNoCrop ==
  (BackgroundDrawn /\ OneFixed) =>
    log[1].from = <<Num(0), Num(0), Num(inp.nw), Num(inp.nh)>>

\* js/export.js finished an export with one fixed dimension from a cropped
\* source
C2_Witness ==
  /\ Succeeded /\ OneFixed /\ file = "js"
  /\ src # FullSource(inp.nw, inp.nh)
  /\ log[1].from = <<src.sx, src.sy, src.sw, src.sh>>

\* C3: with both dimensions fixed the background is drawn from a centred
\* crop of the source with the target's aspect ratio, one axis kept whole,
\* inside the image, onto the whole target canvas
C3_BothFixedCrop ==
  (BackgroundDrawn /\ BothFixed) =>
    /\ CentredCrop(inp.fw, inp.fh)
    /\ log[1].from = <<src.sx, src.sy, src.sw, src.sh>>
    /\ log[1].rect = <<Num(0), Num(0), Num(target.w), Num(target.h)>>

---------------------------------------------------------------------------
(* Properties of the Scale-Derived Style Mapper *)

\* step p has run, and no step has thrown
Pos(p) == CHOOSE k \in 1..Len(Order(file)) : Order(file)[k] = p
Past(p) == errors = 0 /\ Pos(pc) > Pos(p)
Measured == Past("measure")

\* the preview length px carried to the raster by the one scale factor
\* targetWidth / previewWidth: one division, then one multiplication
OneScale == Div(Num(target.w), Num(inp.pw))
ScaledLength(px) == Mul(px, OneScale)
IsScaled(v, px) == v = ScaledLength(px)

\* raster is the on-screen length screen in the proportion to : from
Proportional(raster, screen, from, to) ==
  Close(ExactMul(raster, Num(from)), ExactMul(screen, Num(to)))

\* n is Math.round of the number a: n - 1/2 <= a < n + 1/2
IsRound(n, a) ==
  /\ Le(Num(2 * n - 1), ExactMul(Num(2), a))
  /\ Lt(ExactMul(Num(2), a), Num(2 * n + 1))

\* C4: the card's raster rectangle is proportional to its on-screen
\* rectangle, x and width by targetWidth / previewWidth, y and height by
\* targetHeight / previewHeight; in the end-to-end example (preview 400x200,
\* image 800x400, card the middle half, fixWidth 800) the target is
\* (800, 400), the scale 2 and the card (200, 100, 400, 200).
C4_CardProportional ==
  Measured =>
    /\ Proportional(card.x, inp.cl, inp.pw, target.w)
    /\ Proportional(card.y, inp.ct, inp.ph, target.h)
    /\ Proportional(card.w, inp.cw, inp.pw, target.w)
    /\ Proportional(card.h, inp.ch, inp.ph, target.h)
    /\ (/\ inp.pw = 400 /\ inp.ph = 200 /\ inp.nw = 800 /\ inp.nh = 400
        /\ inp.fw = 800 /\ inp.fh = 0
        /\ inp.cl = Num(100) /\ inp.ct = Num(50)
        /\ inp.cw = Num(200) /\ inp.ch = Num(100)) =>
         /\ target = [w |-> 800, h |-> 400]
         /\ scale = Num(2)
         /\ <<card.x, card.y, card.w, card.h>>
              = <<Num(200), Num(100), Num(400), Num(200)>>

\* the end-to-end example has been exported
C4_Witness ==
  /\ Succeeded
  /\ inp.pw = 400 /\ inp.ph = 200 /\ inp.nw = 800 /\ inp.nh = 400
  /\ inp.fw = 800 /\ inp.fh = 0
  /\ inp.cl = Num(100) /\ inp.ct = Num(50) /\ inp.cw = Num(200) /\ inp.ch = Num(100)
  /\ <<card.x, card.y, card.w, card.h>> = <<Num(200), Num(100), Num(400), Num(200)>>

\* the draw operations of one effect
OpsOf(what) == {k \in 1..Len(log) : log[k].what = what}
MainOps(what) ==
  {k \in 1..Len(log) : log[k].what = what /\ log[k].canvas = "main"}

\* the k-th text pass, k = 1..4
TextOp(k) ==
  log[CHOOSE i \in OpsOf("text") :
        Cardinality({j \in OpsOf("text") : j <= i}) = k]

\* every length but the blur radius is its preview value times the factor s
LengthsScaledBy(s) ==
  /\ scale = s
  /\ Measured => card.r = Mul(inp.radius, s)
  /\ \A k \in 1..Len(log) :
       (log[k].canvas = "main" /\ log[k].st.path # <<>>) =>
          log[k].st.path[5] = card.r
  /\ Past("sample") => blur.radius = Mul(Num(BackdropBlurPx), s)
  /\ \A k \in OpsOf("shadow") :
       \E n \in 1..Len(ShadowLayers) :
         /\ log[k].st.shadowBlur = Mul(Num(ShadowLayers[n].blur), s)
         /\ log[k].st.shadowOffsetY = Mul(Num(ShadowLayers[n].offsetY), s)
         /\ log[k].st.shadowColor.a = ShadowLayers[n].alpha
  /\ \A k \in OpsOf("highlight") :
       /\ log[k].rect[4] = Mul(Num(HighlightBandPx), s)
       /\ log[k].st.fillStyle.line[4]
            = Add(log[k].st.fillStyle.line[2],
                  Mul(Num(HighlightBandPx), s))
  /\ \A k \in OpsOf("text") : log[k].st.fontSize = Mul(inp.fontSize, s)
  /\ Cardinality(OpsOf("text")) = 4 =>
       /\ TextOp(1).st.shadowBlur = Mul(Num(5), s)
       /\ TextOp(1).st.shadowOffsetY = Mul(Num(-2), s)
       /\ TextOp(2).st.shadowBlur = Mul(Lit0_5, s)
       /\ TextOp(2).st.shadowOffsetY = Mul(Num(-1), s)
       /\ TextOp(3).st.shadowBlur = Mul(Num(2), s)
       /\ TextOp(3).st.shadowOffsetY = Mul(Num(1), s)
       /\ TextOp(4).st.shadowBlur = Num(0)
       /\ TextOp(4).st.shadowOffsetY = Num(0)

\* every length but the blur radius is its preview value times the one
\* scale factor
LengthsScaled == LengthsScaledBy(OneScale)

BlurApplied == blur.used # -1

\* C5 as amended: the scale factor is targetWidth / previewWidth and the
\* corner radius, the shadow blurs and offsets, the highlight band, the
\* font size and the text shadow blurs and offsets used by the draw calls
\* are their preview values times that one factor; the radius handed to the
\* blur is 12 x scale rounded to the nearest integer.
C5_LengthsScaledBlurRounded ==
  /\ LengthsScaled
  /\ BlurApplied => IsRound(blur.used, blur.radius)
  /\ \A k \in OpsOf("blur") : log[k].from = <<Num(blur.used)>>

\* C5 as stated: the blur radius used is exactly 12 x scale as well
C5_AllLengthsExact ==
  /\ LengthsScaled
  /\ BlurApplied => IsScaled(Num(blur.used), Num(BackdropBlurPx))

\* an export finished whose scale is not a whole number and whose blur
\* radius was rounded
C5_Witness ==
  /\ Succeeded
  /\ BlurApplied
  /\ ~IsInt(scale)
  /\ ~IsScaled(Num(blur.used), Num(BackdropBlurPx))
  /\ Cardinality(OpsOf("text")) = 4
  /\ OpsOf("shadow") # {}

---------------------------------------------------------------------------
(* Properties of the error handling *)

\* C6: when the image fails to load, the step out of the await ends the
\* call with nothing drawn, no download and exactly one notification, and
\* no step ever follows the end of a call (no retry).
C6_LoadFailureAborts ==
  [][/\ pc # "done"
     /\ (pc = "load" /\ pc' # "background") =>
          /\ pc' = "done"
          /\ log' = <<>>
          /\ ctx' = DefaultCtx
          /\ downloads' = 0
          /\ alerts' = 1
          /\ errors' = 1
          /\ uncaught' = 0]_vars

\* a call ended by a failed load
C6_Witness ==
  /\ pc = "done" /\ log = <<>> /\ target.w > 0
  /\ alerts = 1 /\ errors = 1 /\ downloads = 0

\* C7: a call that ends without a download (the encoder delivered no blob)
\* has shown the failure notification
C7_EncodeFailureReported ==
  (pc = "done" /\ downloads = 0) => alerts = 1

---------------------------------------------------------------------------
(* Properties of the Text Renderer *)

\* C8: every text pass is drawn with the clip region set to the card's
\* rounded rectangle, and all passes are anchored at the same point,
\* horizontally at cardX + cardWidth / 2
C8_TextClippedToCard ==
  \A k \in OpsOf("text") :
    /\ log[k].st.clip = <<CardPath>>
    /\ log[k].rect[1] = Add(card.x, Div(card.w, Num(2)))
    /\ \A j \in OpsOf("text") : log[j].rect = log[k].rect

\* the call holds the channels of its text color: (r, g, b) for
\* "rgb(r, g, b)" and "rgba(r, g, b, a)", with any white space or none after
\* the commas, and (255, 255, 255) for a string the pattern does not match
ChannelsParsed ==
  /\ \A r \in Channels, g \in Channels, b \in Channels :
       inp.textColor \in {FormatRgb(r, g, b), FormatRgba(r, g, b),
                          FormatRgbTight(r, g, b)} =>
         rgb = [r |-> r, g |-> g, b |-> b, parsed |-> TRUE]
  /\ \A sep \in Separators :
       inp.textColor = FormatRgbSep(1, 2, 3, sep) =>
         rgb = [r |-> 1, g |-> 2, b |-> 3, parsed |-> TRUE]
  /\ inp.textColor \in MalformedColors =>
       rgb = [r |-> 255, g |-> 255, b |-> 255, parsed |-> FALSE]

\* reading the text color never throws: a call that reports a failure
\* failed before the card was finished, and every other call draws all four
\* text passes
ExportContinues ==
  /\ errors > 0 => (OpsOf("highlight") = {} /\ OpsOf("text") = {})
  /\ (pc = "done" /\ errors = 0) => Cardinality(OpsOf("text")) = 4

\* C9: reading the text color never throws and the export goes on, and
\* once the text is set up the call holds the channels of the text color:
\* (r, g, b) for "rgb(r, g, b)" and "rgba(r, g, b, a)", and
\* (255, 255, 255) for any string that does not match
C9_ColorParse ==
  /\ Past("textsetup") => ChannelsParsed
  /\ ExportContinues

\* the same for part_000 alone, whose first text shadow is made of the
\* channels; js/export.js hands the string to the canvas as it is, as the
\* fill and as the first shadow, and holds no channels
TextColorByFile ==
  /\ ExportContinues
  /\ (file = "p0" /\ Past("textsetup")) =>
       /\ ChannelsParsed
       /\ OpsOf("text") # {} =>
            TextOp(1).st.shadowColor = Rgba(rgb.r, rgb.g, rgb.b, Lit0_25)
  /\ (file = "js" /\ Past("textsetup")) =>
       /\ rgb.parsed = FALSE
       /\ OpsOf("text") # {} =>
            TextOp(1).st.shadowColor = Css(inp.textColor)
  /\ \A k \in OpsOf("text") :
       log[k].st.fillStyle = ColorPaint(Css(inp.textColor))

---------------------------------------------------------------------------
(* Properties of the order of the effects *)

\* the effects in the order drawn, runs of one effect counted once
RECURSIVE Compress(_)
Compress(labels) ==
  IF Len(labels) <= 1 THEN labels
  ELSE IF labels[1] = labels[2] THEN Compress(Tail(labels))
  ELSE <<labels[1]>> \o Compress(Tail(labels))

EffectSeq == Compress([k \in 1..Len(log) |-> log[k].what])

Before(A, B) == \A a \in A, b \in B : a < b

\* the backdrop reaching the main canvas, and the gradient tint reaching it
\* (in part_000 both arrive with the card canvas)
Composite == MainOps("backdrop") \cup MainOps("card")
Tint == MainOps("gradient") \cup MainOps("card")

BlurStep == IF inp.stackBlur THEN <<"blur">> ELSE <<>>

\* C10 as amended: in every successful export the backdrop is sampled,
\* blurred (when StackBlur is loaded), saturated and then composited inside
\* the card's clip; the shadow layers are drawn before the card's tinted
\* fill reaches the main canvas, and that fill before the border stroke, the
\* highlight band and the noise overlay; the border precedes the highlight.
\* js/export.js draws backdrop, shadows, gradient, noise, border, highlight;
\* part_000 draws shadows, card (backdrop and gradient), border, highlight,
\* noise.
C10_EffectOrder ==
  Succeeded =>
    /\ \A w \in {"sample", "saturate", "shadow", "gradient", "border",
                 "highlight", "noise"} : OpsOf(w) # {}
    /\ Composite # {} /\ Tint # {}
    /\ Before(OpsOf("sample"), OpsOf("blur") \cup OpsOf("saturate"))
    /\ Before(OpsOf("blur"), OpsOf("saturate"))
    /\ Before(OpsOf("saturate"), Composite)
    /\ Before(OpsOf("shadow"), Tint)
    /\ Before(Tint, OpsOf("border") \cup OpsOf("highlight")
                      \cup MainOps("noise"))
    /\ Before(OpsOf("border"), OpsOf("highlight"))
    /\ \A k \in Composite \cup Tint : log[k].st.clip = <<CardPath>>
    /\ file = "js" =>
         EffectSeq = <<"background", "sample">> \o BlurStep \o
                     <<"saturate", "backdrop", "shadow", "gradient",
                       "texture", "noise", "border", "highlight", "text">>
    /\ file = "p0" =>
         EffectSeq = <<"background", "sample">> \o BlurStep \o
                     <<"saturate", "shadow", "backdrop", "gradient", "card",
                       "border", "highlight", "texture", "noise", "text">>

\* C10 as stated: sample, blur, saturation, clipped backdrop composite,
\* shadows, gradient, border, highlight, and the noise overlay last
C10_ListedOrder ==
  Succeeded =>
    /\ OpsOf("blur") # {}
    /\ Before(OpsOf("sample"), OpsOf("blur"))
    /\ Before(OpsOf("blur"), OpsOf("saturate"))
    /\ Before(OpsOf("saturate"), Composite)
    /\ Before(Composite, OpsOf("shadow"))
    /\ Before(OpsOf("shadow"), OpsOf("gradient"))
    /\ Before(OpsOf("gradient"), OpsOf("border"))
    /\ Before(OpsOf("border"), OpsOf("highlight"))
    /\ Before(OpsOf("highlight"), MainOps("noise"))

\* js/export.js finished an export in which the noise was drawn before the
\* border and the shadows after the backdrop
C10_Witness ==
  /\ Succeeded /\ file = "js"
  /\ Before(MainOps("noise"), OpsOf("border"))
  /\ Before(Composite, OpsOf("shadow"))
  /\ Before(OpsOf("shadow"), Tint)
  /\ MainOps("noise") # {} /\ OpsOf("shadow") # {} /\ Composite # {}

---------------------------------------------------------------------------
(* Properties of the card shadow *)

\* the k-th draw operation of one effect
NthOp(what, k) ==
  log[CHOOSE i \in OpsOf(what) :
        Cardinality({j \in OpsOf(what) : j <= i}) = k]

\* shadow fill k is a fill of the card's path with the settings of layer n:
\* blur and y-offset scaled, color (10, 10, 10) at the layer's alpha,
\* x-offset 0 and a fill color of alpha at most 2%
IsLayerFill(k, n) ==
  LET op == NthOp("shadow", k)
  IN  /\ op.canvas = "main" /\ op.call = "fill"
      /\ op.rect = CardPath /\ op.st.path = CardPath
      /\ IsScaled(op.st.shadowBlur, Num(ShadowLayers[n].blur))
      /\ IsScaled(op.st.shadowOffsetY, Num(ShadowLayers[n].offsetY))
      /\ op.st.shadowOffsetX = Num(0)
      /\ op.st.shadowColor.kind = "rgba"
      /\ <<op.st.shadowColor.r, op.st.shadowColor.g, op.st.shadowColor.b>>
           = <<10, 10, 10>>
      /\ op.st.shadowColor.a = ShadowLayers[n].alpha
      /\ op.st.fillStyle.kind = "color"
      /\ Lt(Num(0), op.st.fillStyle.c0.a)
      /\ Le(op.st.fillStyle.c0.a, Lit0_02)

\* the three layers as the claim lists them: blur, y-offset, alpha
ListedLayers ==
  /\ Len(ShadowLayers) = 3
  /\ <<ShadowLayers[1].blur, ShadowLayers[1].offsetY, ShadowLayers[1].alpha>>
       = <<4, 2, Lit0_1>>
  /\ <<ShadowLayers[2].blur, ShadowLayers[2].offsetY, ShadowLayers[2].alpha>>
       = <<16, 8, Lit0_2>>
  /\ <<ShadowLayers[3].blur, ShadowLayers[3].offsetY, ShadowLayers[3].alpha>>
       = <<48, 16, Lit0_3>>

\* no shadow is set while a card effect other than the shadow is drawn
ShadowCleared ==
  \A k \in 1..Len(log) :
    (log[k].canvas = "main" /\ log[k].what \notin {"shadow", "text"}) =>
      /\ log[k].st.shadowColor = Transparent
      /\ log[k].st.shadowBlur = Num(0)
      /\ log[k].st.shadowOffsetX = Num(0)
      /\ log[k].st.shadowOffsetY = Num(0)

\* the shadow fills follow one another in the log
ShadowFillsAdjacent ==
  \A i \in OpsOf("shadow"), j \in OpsOf("shadow") :
    \A k \in i..j : log[k].what = "shadow"

\* C11 as amended: the card shadow is drawn as fills of the card's
\* rounded-rectangle path, three in js/export.js (one per layer) and nine in
\* part_000 (the three layers, three times over), each round in the order
\* (4 x scale, 2 x scale, 0.10), (16 x scale, 8 x scale, 0.20), (48 x scale,
\* 16 x scale, 0.30), with shadow color (10, 10, 10), x-offset 0 and a
\* near-transparent fill color; no shadow is set for any later draw of the
\* card.
C11_ShadowFills ==
  /\ ListedLayers
  /\ ShadowCleared
  /\ ShadowFillsAdjacent
  /\ \A k \in 1..Cardinality(OpsOf("shadow")) :
       IsLayerFill(k, ((k - 1) % 3) + 1)
  /\ Past("shadows") =>
       Cardinality(OpsOf("shadow")) = IF file = "js" THEN 3 ELSE 9

\* C11 as stated: exactly three fills per export, one per layer
C11_ThreeFills ==
  /\ ListedLayers
  /\ ShadowCleared
  /\ Past("shadows") =>
       /\ Cardinality(OpsOf("shadow")) = 3
       /\ \A k \in 1..3 : IsLayerFill(k, k)

\* part_000 finished an export with nine shadow fills at a scale that is not
\* a whole number, and later drew the card with no shadow set
C11_Witness ==
  /\ Succeeded /\ file = "p0"
  /\ ~IsInt(scale)
  /\ Cardinality(OpsOf("shadow")) = 9
  /\ IsLayerFill(9, 3)
  /\ \E k \in MainOps("card") : log[k].st.shadowColor = Transparent

---------------------------------------------------------------------------
(* Properties of the backdrop sample *)

\* the card rectangle lies inside the canvas
CardInsideCanvas ==
  /\ Le(Num(0), card.x) /\ Le(Num(0), card.y)
  /\ Le(ExactAdd(card.x, card.w), Num(target.w))
  /\ Le(ExactAdd(card.y, card.h), Num(target.h))

\* the rectangle of the main canvas that was copied into the blur buffer
Sampled == NthOp("sample", 1).from

\* the padding is at least twice the blur radius, and the blur radius is
\* 12 x ScaleFactor
PaddingCovers ==
  /\ blur.radius = Mul(Num(BackdropBlurPx), scale)
  /\ Le(ExactMul(Num(2), blur.radius), Num(blur.padding))

\* the sampled rectangle lies inside the canvas
SampleInsideCanvas ==
  /\ Le(Num(0), Sampled[1]) /\ Le(Num(0), Sampled[2])
  /\ Le(ExactAdd(Sampled[1], Sampled[3]), Num(target.w))
  /\ Le(ExactAdd(Sampled[2], Sampled[4]), Num(target.h))

\* the sampled rectangle is the padded card rectangle cut to the canvas
PaddedCardClamped ==
  LET pad == Num(blur.padding)
      l == MathMax(Num(0), ExactSub(card.x, pad))
      t == MathMax(Num(0), ExactSub(card.y, pad))
      r == MathMin(Num(target.w), ExactAdd(ExactAdd(card.x, card.w), pad))
      b == MathMin(Num(target.h), ExactAdd(ExactAdd(card.y, card.h), pad))
  IN  /\ Close(Sampled[1], l)
      /\ Close(Sampled[2], t)
      /\ Close(Sampled[3], ExactSub(r, l))
      /\ Close(Sampled[4], ExactSub(b, t))

\* C12: for every card rectangle inside the canvas the region copied from
\* the main canvas is the card rectangle expanded by a padding of at least
\* 2 x blur radius (blur radius = 12 x ScaleFactor) and clamped to the
\* canvas, so that 0 <= x, 0 <= y, x + w <= targetWidth and
\* y + h <= targetHeight.
C12_SampleClamped ==
  (Past("sample") /\ CardInsideCanvas) =>
     /\ PaddingCovers
     /\ SampleInsideCanvas
     /\ PaddedCardClamped

\* what does hold of the sample in both files: the padding, and the origin
\* of the sampled rectangle
SamplePaddingAndOrigin ==
  (Past("sample") /\ CardInsideCanvas) =>
     /\ PaddingCovers
     /\ Le(Num(0), Sampled[1]) /\ Le(Num(0), Sampled[2])
     /\ Close(Sampled[1], MathMax(Num(0), ExactSub(card.x, Num(blur.padding))))
     /\ Close(Sampled[2], MathMax(Num(0), ExactSub(card.y, Num(blur.padding))))

---------------------------------------------------------------------------
(* Properties of the backdrop drawn inside the card *)

\* the blurred buffer has been drawn back into the main canvas
BackdropDrawn ==
  /\ errors = 0
  /\ OpsOf("sample") # {}
  /\ OpsOf("backdrop") # {}
  /\ file = "p0" => OpsOf("card") # {}

\* the rectangle of the main canvas that the whole blur buffer covers when
\* it is drawn back: js/export.js draws the buffer itself; part_000 copies
\* the buffer from (padding, padding) into cardCanvas and draws cardCanvas
\* at the card's origin
BufferPlaced ==
  LET b == NthOp("backdrop", 1)
  IN  IF file = "js"
        THEN b.rect
        ELSE LET c == NthOp("card", 1)
             IN  <<ExactSub(ExactAdd(c.rect[1], b.rect[1]), b.from[1]),
                   ExactSub(ExactAdd(c.rect[2], b.rect[2]), b.from[2]),
                   Num(blur.w), Num(blur.h)>>

\* every copy of the buffer after the sample keeps its size
CopiesUnstretched ==
  \A k \in OpsOf("backdrop") \cup OpsOf("card") :
    /\ log[k].from[3] = log[k].rect[3]
    /\ log[k].from[4] = log[k].rect[4]

\* the rectangle sampled and the rectangle the buffer is drawn back to have
\* the same origin and the same size
SameRectangle ==
  \A i \in 1..4 : Close(Sampled[i], BufferPlaced[i])

\* the background shown at coordinate v of the main canvas (x for axis 1, y
\* for axis 2) is the background of coordinate v: going back through the
\* placement of the buffer and then through the sample,
\* Sampled + (v - BufferPlaced) * sampled size / buffer size = v
ShownInPlace(axis, v) ==
  LET size == IF axis = 1 THEN blur.w ELSE blur.h
  IN  Close(ExactAdd(ExactMul(Sampled[axis], Num(size)),
                     ExactMul(ExactSub(v, BufferPlaced[axis]),
                              Sampled[axis + 2])),
            ExactMul(v, Num(size)))

\* C13: for every card position inside the canvas, including a card closer
\* to a canvas edge than the blur padding, the rectangle the buffer was
\* sampled from has the same origin and the same size as the rectangle the
\* buffer is drawn back to, so the backdrop shown at (x, y) inside the card
\* comes from the background at (x, y).
C13_BackdropAligned ==
  (BackdropDrawn /\ CardInsideCanvas) =>
     /\ CopiesUnstretched
     /\ SameRectangle
     /\ ShownInPlace(1, card.x)
     /\ ShownInPlace(2, card.y)
     /\ ShownInPlace(1, ExactAdd(card.x, card.w))
     /\ ShownInPlace(2, ExactAdd(card.y, card.h))

\* the card is at least the blur padding away from every canvas edge and the
\* padded card has a whole-pixel size
AwayFromEdges ==
  /\ Le(Num(blur.padding), card.x) /\ Le(Num(blur.padding), card.y)
  /\ Le(ExactAdd(ExactAdd(card.x, card.w), Num(blur.padding)), Num(target.w))
  /\ Le(ExactAdd(ExactAdd(card.y, card.h), Num(blur.padding)), Num(target.h))
  /\ IsInt(card.w) /\ IsInt(card.h)

\* what does hold in both files: a card away from the edges is aligned
BackdropAlignedAwayFromEdges ==
  (BackdropDrawn /\ AwayFromEdges) =>
     /\ CopiesUnstretched
     /\ SameRectangle
     /\ ShownInPlace(1, card.x)
     /\ ShownInPlace(2, card.y)

====
